---- MODULE Spec2Model ----
(***************************************************************************)
(* Model of the TunableLaser CSC (lsst.ts.laser.csc): the LaserCSC state   *)
(* supervisor, its LaserModel facade, the periodic telemetry coroutine and *)
(* the commands of the CSC.  The asyncio event loop is single threaded and *)
(* neither the command handlers nor one pass of the telemetry loop contain *)
(* an await before their end, so each of them is one atomic action.        *)
(***************************************************************************)
EXTENDS Integers, Sequences, FiniteSets, TLC

VARIABLES
    summary_state,      \* salobj summary state of the CSC (the lifecycle state)
    evt_detailedState,  \* the detailedState values put on evt_detailedState, in order
    sent,               \* the calls made on the module drivers, in order
    propagate,          \* the power stage (M_CPU800) propagation register
    set_wavelength,     \* the wavelength the oscillator (MaxiOPG) was last set to
    fault_code,         \* LaserComponent: fault code of the most recent refresh
    wavelength,         \* LaserComponent.MaxiOPG.wavelength, the textual reply
    temperature,        \* LaserComponent.TK6.temperature, the textual reply
    refresh,            \* result of the most recent LaserComponent._publish()
    task,               \* the telemetry coroutine: "running" or "failed"
    tel,                \* the telemetry records put on tel_wavelength/tel_temperature
    last,               \* the most recent command or tick and how it ended
    step,               \* number of commands and ticks handled so far
    cmd_data,           \* id_data.data of the most recent command: <<>> or <<wavelength>>
    raised,             \* the driver call that raised in the most recent command: <<>> or <<call>>
    modules,            \* the names under which LaserComponent holds a module driver
    pc,                 \* statement-level view: the line each coroutine is at
    running             \* statement-level view: the coroutine the event loop is running

vars == <<summary_state, evt_detailedState, sent, propagate, set_wavelength,
          fault_code, wavelength, temperature, refresh, task, tel, last, step,
          cmd_data, raised, modules, pc, running>>

\* Bound of the model: the number of commands and telemetry ticks handled.
MaxSteps == 5

----------------------------------------------------------------------------
\* salobj.State, the lifecycle states, by name
State == {"DISABLED", "ENABLED", "FAULT", "OFFLINE", "STANDBY"}

\* LaserDetailedStateEnum
DISABLEDSTATE == 1
ENABLEDSTATE == 2
FAULTSTATE == 3
OFFLINESTATE == 4
STANDBYSTATE == 5
PROPAGATINGSTATE == 6
LaserDetailedStateEnum == {DISABLEDSTATE, ENABLEDSTATE, FAULTSTATE,
                           OFFLINESTATE, STANDBYSTATE, PROPAGATINGSTATE}

\* The attributes an instance of LaserModel has: _laser, set by __init__,
\* and the four methods of the class.
LaserModelAttrs == {"_laser", "change_wavelength", "run", "stop", "publish"}

\* The module drivers LaserComponent creates at construction.
Modules == {"CPU8000", "M_CPU800", "llPMKu", "MaxiOPG", "TK6", "HV40W",
            "DelayLin", "MiniOPG", "LDCO48BP", "M_LDCO48"}

\* The value of the detailedState field of a freshly constructed
\* evt_detailedState.DataType(): the default of the topic, not an enum member.
DataTypeDefault == 0

\* Inputs and hardware replies the model draws from.
Wavelengths == {650, 1064}
FaultCodes == {"0000H", "0001H", "0002H"}
WavelengthReplies == {<<"6", "5", "0", "n", "m">>, <<"n", "m">>}
TemperatureReplies == {<<"2", "5", "C">>, <<"C">>}
RefreshResults == {"success", "degraded", "failed"}

----------------------------------------------------------------------------
\* float(text) of a text of decimal digits; "ValueError" when text is not a number
Digits == {"0", "1", "2", "3", "4", "5", "6", "7", "8", "9"}
DigitValue(c) == CHOOSE n \in 0..9 : <<"0", "1", "2", "3", "4", "5", "6", "7", "8", "9">>[n + 1] = c

RECURSIVE DecimalValue(_)
DecimalValue(s) ==
    IF s = <<>> THEN 0
    ELSE 10 * DecimalValue(SubSeq(s, 1, Len(s) - 1)) + DigitValue(s[Len(s)])

float(s) ==
    IF Len(s) > 0 /\ \A i \in 1..Len(s) : s[i] \in Digits
    THEN DecimalValue(s)
    ELSE "ValueError"

\* text[:-n]
DropLast(s, n) == SubSeq(s, 1, Len(s) - n)

----------------------------------------------------------------------------
\* A call on a module driver, as recorded in sent.
Call(module, command, value) == [module |-> module, command |-> command, value |-> value]

\* M_CPU800.set_propagate(value): one command to the power stage; ok says
\* whether the round trip on the channel succeeded (else it raises).
set_propagate(value, ok) ==
    /\ sent' = Append(sent, Call("M_CPU800", "set_propagate", value))
    /\ propagate' = IF ok THEN value ELSE propagate

\* LaserModel.run / LaserModel.stop: a single delegated call.
run(ok) == set_propagate("ON", ok)
stop(ok) == set_propagate("OFF", ok)

\* LaserModel.change_wavelength: MaxiOPG.set_wavelength(wavelength).
change_wavelength(w, ok) ==
    /\ sent' = Append(sent, Call("MaxiOPG", "set_wavelength", w))
    /\ set_wavelength' = IF ok THEN w ELSE set_wavelength

\* BaseCsc.assert_enabled: raises ExpectedError unless the summary state is ENABLED.
assert_enabled == summary_state = "ENABLED"

\* The detailed_state property: the getter reads the field of a new DataType().
detailed_state == DataTypeDefault

\* assert_propagating with the comparison inverted.
assert_propagating_inverted == detailed_state # PROPAGATINGSTATE

\* LaserCSC.assert_propagating: raises ExpectedError unless detailed_state is
\* PROPAGATINGSTATE.
assert_propagating == detailed_state = PROPAGATINGSTATE

\* The detailed_state setter: puts a new topic carrying the value.
detailed_state_set(new_sub_state) ==
    evt_detailedState' = Append(evt_detailedState, new_sub_state)

\* How a handler ended: "ok", "rejected" (ExpectedError of a state check) or
\* "failed" (the driver call raised).
Result(cmd, result, data, exc) ==
    /\ last' = [cmd |-> cmd, result |-> result]
    /\ step' = step + 1
    /\ cmd_data' = data
    /\ raised' = exc
    /\ UNCHANGED <<pc, running>>

Done(cmd, result) == Result(cmd, result, <<>>, <<>>)

Telemetry == <<fault_code, wavelength, temperature, refresh, task, tel>>

----------------------------------------------------------------------------
\* LaserCSC.__init__: the summary state is initial_state, nothing has been
\* published or sent, and the telemetry coroutine is scheduled.
Init ==
    /\ summary_state \in State
    /\ evt_detailedState = <<>>
    /\ sent = <<>>
    /\ propagate = "OFF"
    /\ set_wavelength = 0
    /\ fault_code = "0000H"
    /\ wavelength = <<"6", "5", "0", "n", "m">>
    /\ temperature = <<"2", "5", "C">>
    /\ refresh = "success"
    /\ task = "running"
    /\ tel = <<>>
    /\ last = [cmd |-> "init", result |-> "ok"]
    /\ step = 0
    /\ cmd_data = <<>>
    /\ raised = <<>>
    /\ modules = Modules
    /\ pc = [telemetry |-> 68, command |-> <<>>]
    /\ running = "none"

----------------------------------------------------------------------------
\* Commands of the CSC.  A handler that raises ExpectedError in a state check
\* is rejected; what it did before the raise stays done.

Rejected(cmd) == Done(cmd, "rejected")

\* do_changeWavelength without the call of assert_enabled.
do_changeWavelength_unchecked ==
    /\ step < MaxSteps
    /\ \E w \in Wavelengths, ok \in BOOLEAN :
         /\ change_wavelength(w, ok)
         /\ IF ok
            THEN Result("changeWavelength", "ok", <<w>>, <<>>)
            ELSE Result("changeWavelength", "failed", <<w>>,
                        <<Call("MaxiOPG", "set_wavelength", w)>>)
    /\ UNCHANGED <<summary_state, evt_detailedState, propagate, Telemetry, modules>>

do_changeWavelength ==
    /\ step < MaxSteps
    /\ \E w \in Wavelengths :
         IF ~assert_enabled
         THEN /\ Result("changeWavelength", "rejected", <<w>>, <<>>)
              /\ UNCHANGED <<sent, set_wavelength>>
         ELSE \E ok \in BOOLEAN :
              /\ change_wavelength(w, ok)
              /\ IF ok
                 THEN Result("changeWavelength", "ok", <<w>>, <<>>)
                 ELSE Result("changeWavelength", "failed", <<w>>,
                             <<Call("MaxiOPG", "set_wavelength", w)>>)
    /\ UNCHANGED <<summary_state, evt_detailedState, propagate, Telemetry, modules>>

\* do_startPropagateLaser without the write of detailed_state.
do_startPropagateLaser_no_write ==
    /\ step < MaxSteps
    /\ IF ~assert_enabled
       THEN /\ Rejected("startPropagateLaser")
            /\ UNCHANGED <<sent, propagate>>
       ELSE \E ok \in BOOLEAN :
            /\ run(ok)
            /\ Done("startPropagateLaser", IF ok THEN "ok" ELSE "failed")
    /\ UNCHANGED <<summary_state, evt_detailedState, set_wavelength, Telemetry, modules>>

do_startPropagateLaser ==
    /\ step < MaxSteps
    /\ IF ~assert_enabled
       THEN /\ Rejected("startPropagateLaser")
            /\ UNCHANGED <<sent, propagate, evt_detailedState>>
       ELSE \E ok \in BOOLEAN :
            /\ run(ok)
            /\ IF ok
               THEN /\ detailed_state_set(PROPAGATINGSTATE)
                    /\ Done("startPropagateLaser", "ok")
               ELSE /\ UNCHANGED evt_detailedState
                    /\ Result("startPropagateLaser", "failed", <<>>,
                              <<Call("M_CPU800", "set_propagate", "ON")>>)
    /\ UNCHANGED <<summary_state, set_wavelength, Telemetry, modules>>

\* do_stopPropagateLaser with model.stop() called before assert_propagating.
do_stopPropagateLaser_stop_first ==
    /\ step < MaxSteps
    /\ IF ~assert_enabled
       THEN /\ Rejected("stopPropagateLaser")
            /\ UNCHANGED <<sent, propagate, evt_detailedState>>
       ELSE \E ok \in BOOLEAN :
            /\ stop(ok)
            /\ IF ~ok
               THEN /\ UNCHANGED evt_detailedState
                    /\ Done("stopPropagateLaser", "failed")
               ELSE IF ~assert_propagating
               THEN /\ UNCHANGED evt_detailedState
                    /\ Rejected("stopPropagateLaser")
               ELSE /\ detailed_state_set(ENABLEDSTATE)
                    /\ Done("stopPropagateLaser", "ok")
    /\ UNCHANGED <<summary_state, set_wavelength, Telemetry, modules>>

do_stopPropagateLaser ==
    /\ step < MaxSteps
    /\ IF ~assert_enabled \/ ~assert_propagating
       THEN /\ Rejected("stopPropagateLaser")
            /\ UNCHANGED <<sent, propagate, evt_detailedState>>
       ELSE \E ok \in BOOLEAN :
            /\ stop(ok)
            /\ IF ok
               THEN /\ detailed_state_set(ENABLEDSTATE)
                    /\ Done("stopPropagateLaser", "ok")
               ELSE /\ UNCHANGED evt_detailedState
                    /\ Result("stopPropagateLaser", "failed", <<>>,
                              <<Call("M_CPU800", "set_propagate", "OFF")>>)
    /\ UNCHANGED <<summary_state, set_wavelength, Telemetry, modules>>

\* do_clearFaultState that also leaves Fault, for STANDBY.
do_clearFaultState_leaves_fault ==
    /\ step < MaxSteps
    /\ \E ok \in BOOLEAN :
         /\ stop(ok)
         /\ summary_state' = IF ok /\ summary_state = "FAULT" THEN "STANDBY"
                                                              ELSE summary_state
         /\ IF ok
            THEN Done("clearFaultState", "ok")
            ELSE Result("clearFaultState", "failed", <<>>,
                        <<Call("M_CPU800", "set_propagate", "OFF")>>)
    /\ UNCHANGED <<evt_detailedState, set_wavelength, Telemetry, modules>>

do_clearFaultState ==
    /\ step < MaxSteps
    /\ \E ok \in BOOLEAN :
         /\ stop(ok)
         /\ IF ok
            THEN Done("clearFaultState", "ok")
            ELSE Result("clearFaultState", "failed", <<>>,
                        <<Call("M_CPU800", "set_propagate", "OFF")>>)
    /\ UNCHANGED <<summary_state, evt_detailedState, set_wavelength, Telemetry, modules>>

\* do_abort, do_setValue and do_enterControl: pass
NoOp(cmd) ==
    /\ step < MaxSteps
    /\ Done(cmd, "ok")
    /\ UNCHANGED <<summary_state, evt_detailedState, sent, propagate,
                   set_wavelength, Telemetry, modules>>

\* do_abort implemented as a stop of the propagation.
do_abort_stops ==
    /\ step < MaxSteps
    /\ \E ok \in BOOLEAN :
         /\ stop(ok)
         /\ IF ok
            THEN Done("abort", "ok")
            ELSE Result("abort", "failed", <<>>,
                        <<Call("M_CPU800", "set_propagate", "OFF")>>)
    /\ UNCHANGED <<summary_state, evt_detailedState, set_wavelength, Telemetry, modules>>

do_abort == NoOp("abort")
do_setValue == NoOp("setValue")
do_enterControl == NoOp("enterControl")

----------------------------------------------------------------------------
\* Lifecycle commands of salobj.BaseCsc: each is allowed in some summary
\* states, calls the begin_ hook, and then sets the new summary state; when
\* the hook raises the summary state is restored.

\* LaserCSC.begin_enable: MaxiOPG.set_configuration("No SCU"), then
\* M_CPU800.set_energy("MAX"); a call that raises ends the hook.
\* outcome is "ok", "configuration" or "energy" (the call that raised).
\* begin_enable with the two calls in the other order.
begin_enable_energy_first(outcome) ==
    sent' = IF outcome = "energy"
            THEN Append(sent, Call("M_CPU800", "set_energy", "MAX"))
            ELSE sent \o <<Call("M_CPU800", "set_energy", "MAX"),
                           Call("MaxiOPG", "set_configuration", "No SCU")>>

begin_enable(outcome) ==
    sent' = IF outcome = "configuration"
            THEN Append(sent, Call("MaxiOPG", "set_configuration", "No SCU"))
            ELSE sent \o <<Call("MaxiOPG", "set_configuration", "No SCU"),
                           Call("M_CPU800", "set_energy", "MAX")>>

do_change_state(cmd, allowed_curr_states, new_state) ==
    /\ step < MaxSteps
    /\ IF summary_state \notin allowed_curr_states
       THEN /\ Rejected(cmd)
            /\ UNCHANGED summary_state
       ELSE /\ summary_state' = new_state
            /\ Done(cmd, "ok")
    /\ UNCHANGED <<evt_detailedState, sent, propagate, set_wavelength, Telemetry, modules>>

do_start == do_change_state("start", {"STANDBY"}, "DISABLED")
do_disable == do_change_state("disable", {"ENABLED"}, "DISABLED")
do_standby == do_change_state("standby", {"DISABLED", "FAULT"}, "STANDBY")
do_exitControl == do_change_state("exitControl", {"STANDBY"}, "OFFLINE")

do_enable ==
    /\ step < MaxSteps
    /\ IF summary_state # "DISABLED"
       THEN /\ Rejected("enable")
            /\ UNCHANGED <<summary_state, sent>>
       ELSE \E outcome \in {"ok", "configuration", "energy"} :
            /\ begin_enable(outcome)
            /\ summary_state' = IF outcome = "ok" THEN "ENABLED" ELSE summary_state
            /\ Result("enable", IF outcome = "ok" THEN "ok" ELSE "failed", <<>>,
                      CASE outcome = "ok" -> <<>>
                        [] outcome = "configuration" ->
                              <<Call("MaxiOPG", "set_configuration", "No SCU")>>
                        [] outcome = "energy" ->
                              <<Call("M_CPU800", "set_energy", "MAX")>>)
    /\ UNCHANGED <<evt_detailedState, propagate, set_wavelength, Telemetry, modules>>

----------------------------------------------------------------------------
\* LaserModel.publish: LaserComponent._publish(), one refresh of all module
\* drivers.  result is what the refresh returns; fc, wl and t are the replies
\* of the hardware.  A degraded refresh keeps the values of the modules that
\* failed, a failed one keeps the previous fault code as well.
\* publish that drops the driver of a module whose refresh failed.
publish_drops_module(result, fc, wl, t) ==
    /\ refresh' = result
    /\ fault_code' = IF result = "failed" THEN fault_code ELSE fc
    /\ wavelength' = IF result = "success" THEN wl ELSE wavelength
    /\ temperature' = IF result = "success" THEN t ELSE temperature
    /\ modules' = IF result = "success" THEN modules ELSE modules \ {"TK6"}

publish(result, fc, wl, t) ==
    /\ refresh' = result
    /\ fault_code' = IF result = "failed" THEN fault_code ELSE fc
    /\ wavelength' = IF result = "success" THEN wl ELSE wavelength
    /\ temperature' = IF result = "success" THEN t ELSE temperature
    /\ UNCHANGED modules

\* BaseCsc.fault: the summary state becomes FAULT.
fault == "FAULT"

\* One pass of the while loop of LaserCSC.telemetry, up to the sleep or to
\* the exception that ends the coroutine.  self.model is a LaserModel, and
\* reading an attribute it does not have raises AttributeError.
telemetry ==
    /\ step < MaxSteps
    /\ task = "running"
    /\ \E result \in RefreshResults, fc \in FaultCodes,
          wl \in WavelengthReplies, t \in TemperatureReplies :
         /\ publish(result, fc, wl, t)
         /\ IF "fault_code" \notin LaserModelAttrs
            THEN /\ task' = "failed"
                 /\ UNCHANGED <<summary_state, tel>>
                 /\ Done("telemetry", "raised")
            ELSE LET w == float(DropLast(wavelength', 2))
                     c == float(DropLast(temperature', 1))
                 IN  /\ summary_state' = IF fault_code' = "0002H" THEN fault
                                                                  ELSE summary_state
                     /\ IF w = "ValueError" \/ c = "ValueError"
                        THEN /\ task' = "failed"
                             /\ UNCHANGED tel
                             /\ Done("telemetry", "raised")
                        ELSE /\ tel' = Append(tel, [wavelength |-> w, temperature |-> c])
                             /\ UNCHANGED task
                             /\ Done("telemetry", "ok")
    /\ UNCHANGED <<evt_detailedState, sent, propagate, set_wavelength>>

----------------------------------------------------------------------------
Next ==
    \/ telemetry
    \/ do_changeWavelength
    \/ do_startPropagateLaser
    \/ do_stopPropagateLaser
    \/ do_clearFaultState
    \/ do_abort
    \/ do_setValue
    \/ do_enterControl
    \/ do_start
    \/ do_enable
    \/ do_disable
    \/ do_standby
    \/ do_exitControl

Spec == Init /\ [][Next]_vars

----------------------------------------------------------------------------
\* The statement-level view of the same handlers: the event loop runs one
\* coroutine at a time, statement by statement, and takes another coroutine
\* only when the running one has executed a line that awaits or has ended.
\* pc.telemetry is the line of telemetry() to execute next (0 when the
\* coroutine has ended); pc.command is <<>> or <<command, line>>.

\* The lines of the coroutines of LaserCSC that contain an await, with an
\* await added after model.run().
Awaits_in_start == {75, 118}

\* The lines of the coroutines of LaserCSC that contain an await.
Awaits == {75}

\* The statements of the command handlers, by line.
Program(cmd) ==
    CASE cmd = "changeWavelength" -> <<103, 104>>
      [] cmd = "startPropagateLaser" -> <<117, 118, 119>>
      [] cmd = "stopPropagateLaser" -> <<132, 133, 134, 135>>
      [] cmd = "clearFaultState" -> <<161>>

ChannelCommands == {"changeWavelength", "startPropagateLaser",
                    "stopPropagateLaser", "clearFaultState"}

\* The event loop is free and takes the handler of a received command.
SchedBegin ==
    /\ step < MaxSteps
    /\ running = "none"
    /\ pc.command = <<>>
    /\ \E cmd \in ChannelCommands :
         /\ pc' = [pc EXCEPT !.command = <<cmd, Program(cmd)[1]>>]
         /\ last' = [cmd |-> cmd, result |-> "running"]
    /\ running' = "command"
    /\ step' = step + 1
    /\ UNCHANGED <<summary_state, evt_detailedState, sent, propagate, set_wavelength,
                   Telemetry, modules, cmd_data, raised>>

\* The command coroutine either goes on with its next line or ends with result.
SchedGoto(cmd, line, result) ==
    LET ended == result # "ok" \/ line = Program(cmd)[Len(Program(cmd))]
    IN  /\ pc' = [pc EXCEPT !.command = IF ended THEN <<>> ELSE <<cmd, line + 1>>]
        /\ last' = [cmd |-> cmd, result |-> IF ended THEN result ELSE "running"]
        /\ running' = IF ended \/ line \in Awaits THEN "none" ELSE "command"

\* The command coroutine executes the line it is at.
SchedCommand ==
    /\ pc.command # <<>>
    /\ running \in {"none", "command"}
    /\ LET cmd == pc.command[1]
           line == pc.command[2]
       IN  CASE line \in {103, 117, 132} ->
                  /\ SchedGoto(cmd, line, IF assert_enabled THEN "ok" ELSE "rejected")
                  /\ UNCHANGED <<sent, propagate, set_wavelength, evt_detailedState>>
             [] line = 133 ->
                  /\ SchedGoto(cmd, line, IF assert_propagating THEN "ok" ELSE "rejected")
                  /\ UNCHANGED <<sent, propagate, set_wavelength, evt_detailedState>>
             [] line = 104 ->
                  \E w \in Wavelengths, ok \in BOOLEAN :
                  /\ change_wavelength(w, ok)
                  /\ SchedGoto(cmd, line, IF ok THEN "ok" ELSE "failed")
                  /\ UNCHANGED <<propagate, evt_detailedState>>
             [] line = 118 ->
                  \E ok \in BOOLEAN :
                  /\ run(ok)
                  /\ SchedGoto(cmd, line, IF ok THEN "ok" ELSE "failed")
                  /\ UNCHANGED <<set_wavelength, evt_detailedState>>
             [] line \in {134, 161} ->
                  \E ok \in BOOLEAN :
                  /\ stop(ok)
                  /\ SchedGoto(cmd, line, IF ok THEN "ok" ELSE "failed")
                  /\ UNCHANGED <<set_wavelength, evt_detailedState>>
             [] line = 119 ->
                  /\ detailed_state_set(PROPAGATINGSTATE)
                  /\ SchedGoto(cmd, line, "ok")
                  /\ UNCHANGED <<sent, propagate, set_wavelength>>
             [] line = 135 ->
                  /\ detailed_state_set(ENABLEDSTATE)
                  /\ SchedGoto(cmd, line, "ok")
                  /\ UNCHANGED <<sent, propagate, set_wavelength>>
    /\ UNCHANGED <<summary_state, Telemetry, modules, step, cmd_data, raised>>

\* The telemetry coroutine executes the line it is at: 68, 69-70, 71-74
\* or 75.  It is taken at line 68 when the event loop is free (at the start
\* and after each sleep).
SchedTelemetry ==
    /\ pc.telemetry # 0
    /\ running = "telemetry" \/ (running = "none" /\ pc.telemetry = 68)
    /\ LET line == pc.telemetry
           Goto(next) ==
               /\ pc' = [pc EXCEPT !.telemetry = next]
               /\ running' = IF next = 0 \/ line \in Awaits THEN "none" ELSE "telemetry"
       IN  CASE line = 68 ->
                  /\ step < MaxSteps
                  /\ step' = step + 1
                  /\ last' = [cmd |-> "telemetry", result |-> "running"]
                  /\ \E result \in RefreshResults, fc \in FaultCodes,
                        wl \in WavelengthReplies, t \in TemperatureReplies :
                       publish(result, fc, wl, t)
                  /\ Goto(69)
                  /\ UNCHANGED <<summary_state, task, tel>>
             [] line = 69 ->
                  /\ IF "fault_code" \notin LaserModelAttrs
                     THEN /\ task' = "failed"
                          /\ last' = [cmd |-> "telemetry", result |-> "raised"]
                          /\ Goto(0)
                          /\ UNCHANGED summary_state
                     ELSE /\ summary_state' = IF fault_code = "0002H" THEN fault
                                                                     ELSE summary_state
                          /\ Goto(71)
                          /\ UNCHANGED <<task, last>>
                  /\ UNCHANGED <<fault_code, wavelength, temperature, refresh,
                                 tel, modules, step>>
             [] line = 71 ->
                  LET w == float(DropLast(wavelength, 2))
                      c == float(DropLast(temperature, 1))
                  IN  /\ IF w = "ValueError" \/ c = "ValueError"
                         THEN /\ task' = "failed"
                              /\ last' = [cmd |-> "telemetry", result |-> "raised"]
                              /\ Goto(0)
                              /\ UNCHANGED tel
                         ELSE /\ tel' = Append(tel, [wavelength |-> w, temperature |-> c])
                              /\ Goto(75)
                              /\ UNCHANGED <<task, last>>
                      /\ UNCHANGED <<summary_state, fault_code, wavelength, temperature,
                                     refresh, modules, step>>
             [] line = 75 ->
                  /\ last' = [cmd |-> "telemetry", result |-> "ok"]
                  /\ Goto(68)
                  /\ UNCHANGED <<summary_state, Telemetry, modules, step>>
    /\ UNCHANGED <<evt_detailedState, sent, propagate, set_wavelength, cmd_data, raised>>

NextSched ==
    \/ SchedBegin
    \/ SchedCommand
    \/ SchedTelemetry

SpecSched == Init /\ [][NextSched]_vars

----------------------------------------------------------------------------
\* Vocabulary of the properties.

\* The step handles the command (or tick) cmd.
Issued(cmd) == step' = step + 1 /\ last'.cmd = cmd

\* The sub-state the supervisor last stored: the detailedState it last wrote.
Propagating ==
    /\ summary_state = "ENABLED"
    /\ evt_detailedState # <<>>
    /\ evt_detailedState[Len(evt_detailedState)] = PROPAGATINGSTATE

EnabledIdle == summary_state = "ENABLED" /\ ~Propagating

PropagateON == Call("M_CPU800", "set_propagate", "ON")
PropagateOFF == Call("M_CPU800", "set_propagate", "OFF")

\* The number of calls c in the sequence of calls q.
RECURSIVE Count(_, _)
Count(q, c) ==
    IF q = <<>> THEN 0
    ELSE Count(Tail(q), c) + (IF Head(q) = c THEN 1 ELSE 0)

\* The detailedState label of a lifecycle state.
Label(state) ==
    CASE state = "DISABLED" -> DISABLEDSTATE
      [] state = "ENABLED" -> ENABLEDSTATE
      [] state = "FAULT" -> FAULTSTATE
      [] state = "OFFLINE" -> OFFLINESTATE
      [] state = "STANDBY" -> STANDBYSTATE

\* C1: after a telemetry tick whose refresh observed the fault code "0002H"
\* the lifecycle state is Fault and the sub-state is no longer Propagating.
C1_TickOn0002HForcesFault ==
    (last.cmd = "telemetry" /\ fault_code = "0002H")
        => (summary_state = "FAULT" /\ ~Propagating)

\* C2: a telemetry tick that observes the critical fault code while the power
\* stage is propagating commands the power stage OFF: after the tick the
\* hardware is not left propagating.
C2_FaultTickAbortsPropagation ==
    [][(Issued("telemetry") /\ fault_code' = "0002H" /\ propagate = "ON")
          => (propagate' = "OFF" /\ sent' = Append(sent, PropagateOFF))]_vars

\* C3: stopPropagateLaser issued in Enabled(Propagating) is accepted, sends
\* exactly one propagation-OFF command and, when that command returns, the
\* sub-state is Enabled-Idle.
C3_StopAcceptedWhilePropagating ==
    [][(Propagating /\ Issued("stopPropagateLaser"))
          => /\ last'.result # "rejected"
             /\ sent' = Append(sent, PropagateOFF)
             /\ last'.result = "ok" => EnabledIdle']_vars

\* C4: startPropagateLaser issued in Enabled(Idle) is accepted and makes
\* exactly one propagation-ON call on the power stage; when the call returns
\* the sub-state is Propagating, published as PROPAGATINGSTATE.
C4_StartFromIdle ==
    [][(EnabledIdle /\ Issued("startPropagateLaser"))
          => /\ last'.result # "rejected"
             /\ sent' = Append(sent, PropagateON)
             /\ last'.result = "ok" =>
                   /\ evt_detailedState' = Append(evt_detailedState, PROPAGATINGSTATE)
                   /\ Propagating'
                   /\ propagate' = "ON"]_vars

C4_Witness ==
    /\ last = [cmd |-> "startPropagateLaser", result |-> "ok"]
    /\ Propagating
    /\ Count(sent, PropagateON) = 1
    /\ evt_detailedState = <<PROPAGATINGSTATE>>

\* C5: startPropagateLaser issued in any state other than Enabled(Idle),
\* Enabled(Propagating) included, is rejected and makes no driver call.
C5_StartRejectedOutsideIdle ==
    [][(~EnabledIdle /\ Issued("startPropagateLaser"))
          => (last'.result = "rejected" /\ sent' = sent)]_vars

\* C6: stopPropagateLaser issued when the state is not Enabled(Propagating)
\* (Enabled with sub-state Idle, or a lifecycle state other than Enabled) is
\* rejected and no propagation-OFF command is sent.
C6_StopRejectedUnlessPropagating ==
    [][(~Propagating /\ Issued("stopPropagateLaser"))
          => (last'.result = "rejected" /\ sent' = sent /\ propagate' = propagate)]_vars

C6_Witness ==
    /\ last = [cmd |-> "stopPropagateLaser", result |-> "rejected"]
    /\ EnabledIdle
    /\ Count(sent, PropagateOFF) = 0

\* C7: clearFaultState issued while the lifecycle state is not Fault is
\* rejected and makes no driver call.
C7_ClearFaultRejectedOutsideFault ==
    [][(summary_state # "FAULT" /\ Issued("clearFaultState"))
          => (last'.result = "rejected" /\ sent' = sent /\ propagate' = propagate)]_vars

\* C8: a command rejected by its state check has done nothing: no driver
\* call, no change of the hardware, of the lifecycle state or of the
\* sub-state, no detailedState event.
C8_RejectedDoesNothing ==
    [][(step' = step + 1 /\ last'.result = "rejected")
          => UNCHANGED <<sent, propagate, set_wavelength, summary_state,
                         evt_detailedState>>]_vars

C8_Witness ==
    /\ last = [cmd |-> "changeWavelength", result |-> "rejected"]
    /\ summary_state = "DISABLED"
    /\ sent # <<>>
    /\ propagate = "ON"

\* C9: every state transition is accompanied by a detailedState event that
\* carries the label of the new state: a change of the lifecycle state, a
\* start or stop of propagation, and the fault transition of a tick that
\* observed the critical fault code.
C9_TransitionsPublishDetailedState ==
    [][/\ summary_state' # summary_state
          => evt_detailedState' = Append(evt_detailedState, Label(summary_state'))
       /\ (Issued("telemetry") /\ fault_code' = "0002H")
          => evt_detailedState' = Append(evt_detailedState, FAULTSTATE)
       /\ (Issued("startPropagateLaser") /\ last'.result = "ok")
          => evt_detailedState' = Append(evt_detailedState, PROPAGATINGSTATE)
       /\ (Issued("stopPropagateLaser") /\ last'.result = "ok")
          => evt_detailedState' = Append(evt_detailedState, ENABLEDSTATE)]_vars

\* C10: a tick whose refresh fails or is degraded does not end the telemetry
\* loop, and it publishes the last known wavelength and temperature.
C10_LoopSurvivesFailedRefresh ==
    (last.cmd = "telemetry" /\ refresh \in {"degraded", "failed"})
        => (task = "running" /\ tel # <<>>)

\* C11: a telemetry tick whose refresh of the fault-relevant module failed
\* forces the lifecycle state to Fault.
C11_FailedRefreshForcesFault ==
    (last.cmd = "telemetry" /\ refresh = "failed") => summary_state = "FAULT"

\* C12: clearFaultState issued in Fault makes exactly one propagation-OFF
\* call on the power stage (which is OFF when the call returns) and leaves
\* the lifecycle state Fault; Fault is left only by a lifecycle command of
\* the middleware (standby).
C12_ClearFaultStaysInFault ==
    [][/\ (summary_state = "FAULT" /\ Issued("clearFaultState"))
          => /\ last'.result # "rejected"
             /\ sent' = Append(sent, PropagateOFF)
             /\ last'.result = "ok" => propagate' = "OFF"
             /\ summary_state' = "FAULT"
       /\ (summary_state = "FAULT" /\ summary_state' # "FAULT")
          => Issued("standby")]_vars

C12_Witness ==
    /\ last = [cmd |-> "clearFaultState", result |-> "ok"]
    /\ summary_state = "FAULT"
    /\ Count(sent, PropagateOFF) = 1
    /\ propagate = "OFF"

\* C13: changeWavelength(w) issued in Enabled, in either sub-state, makes
\* exactly one set_wavelength(w) call on the oscillator driver, succeeds when
\* the call returns, and leaves the lifecycle state and the sub-state as they
\* were; outside Enabled it is rejected and makes no driver call.
C13_ChangeWavelength ==
    [][Issued("changeWavelength")
          => /\ Len(cmd_data') = 1
             /\ IF summary_state = "ENABLED"
                THEN /\ last'.result # "rejected"
                     /\ sent' = Append(sent, Call("MaxiOPG", "set_wavelength", cmd_data'[1]))
                     /\ last'.result = "ok" <=> raised' = <<>>
                     /\ last'.result = "ok" => set_wavelength' = cmd_data'[1]
                ELSE /\ last'.result = "rejected"
                     /\ sent' = sent
                     /\ set_wavelength' = set_wavelength
             /\ UNCHANGED <<summary_state, evt_detailedState, propagate>>]_vars

C13_Witness ==
    /\ last = [cmd |-> "changeWavelength", result |-> "ok"]
    /\ cmd_data = <<1064>>
    /\ Propagating
    /\ sent[Len(sent)] = Call("MaxiOPG", "set_wavelength", 1064)
    /\ set_wavelength = 1064

\* C14: whenever the lifecycle state enters Enabled from another state, the
\* sub-state is Enabled-Idle afterwards.
C14_EnableResetsSubState ==
    [][(summary_state # "ENABLED" /\ summary_state' = "ENABLED") => EnabledIdle']_vars

\* C15: abort and setValue succeed in every lifecycle state and sub-state and
\* change nothing: no driver call, no change of the hardware, of the lifecycle
\* state or of the sub-state, nothing published.
C15_AbortAndSetValueAreNoOps ==
    [][(Issued("abort") \/ Issued("setValue"))
          => /\ last'.result = "ok"
             /\ UNCHANGED <<summary_state, evt_detailedState, sent, propagate,
                            set_wavelength, tel, task, modules>>]_vars

C15_Witness ==
    /\ last = [cmd |-> "abort", result |-> "ok"]
    /\ Propagating
    /\ propagate = "ON"
    /\ sent[Len(sent)] = PropagateON

\* The device-setup calls of the enable hook.
SetConfiguration == Call("MaxiOPG", "set_configuration", "No SCU")
SetEnergy == Call("M_CPU800", "set_energy", "MAX")

\* C16: a step that moves the lifecycle state into Enabled is an enable
\* command whose hook made the two setup calls once each, configuration
\* before energy; an enable whose configuration call raised made no energy
\* call, and a failed enable does not reach Enabled and repeats no call.
C16_EnableHookOnceInOrder ==
    [][/\ (summary_state # "ENABLED" /\ summary_state' = "ENABLED")
          => /\ Issued("enable")
             /\ sent' = sent \o <<SetConfiguration, SetEnergy>>
       /\ (Issued("enable") /\ raised' = <<SetConfiguration>>)
          => (sent' = Append(sent, SetConfiguration) /\ summary_state' = summary_state)
       /\ (Issued("enable") /\ raised' = <<SetEnergy>>)
          => /\ sent' = sent \o <<SetConfiguration, SetEnergy>>
             /\ summary_state' = summary_state]_vars

C16_Witness ==
    /\ last = [cmd |-> "enable", result |-> "ok"]
    /\ summary_state = "ENABLED"
    /\ Len(sent) >= 3
    /\ SubSeq(sent, Len(sent) - 2, Len(sent)) = <<SetConfiguration, SetConfiguration, SetEnergy>>

\* C17: the device aggregate holds a module driver under each of the ten
\* module names, in every reachable state.
C17_AllModulesPresent ==
    {"CPU8000", "M_CPU800", "llPMKu", "MaxiOPG", "TK6", "HV40W", "DelayLin",
     "MiniOPG", "LDCO48BP", "M_LDCO48"} \subseteq modules

C17_Witness ==
    /\ last.cmd = "telemetry"
    /\ refresh = "failed"
    /\ Cardinality(modules) = 10
    /\ sent # <<>>

\* C18: the telemetry tick and the commands do not interleave: while a
\* command is between its first statement and its end (legality check,
\* driver call, write of the sub-state) no statement of a tick is executed,
\* and while a tick is between its refresh and its sleep no statement of a
\* command is executed.
C18_NoInterleaving ==
    [][/\ pc'.telemetry # pc.telemetry => (pc.command = <<>> /\ pc'.command = <<>>)
       /\ pc'.command # pc.command => (pc.telemetry \in {0, 68} /\ pc'.telemetry = pc.telemetry)]_vars

C18_Witness ==
    /\ pc.command = <<"startPropagateLaser", 119>>
    /\ pc.telemetry = 68
    /\ task = "running"
    /\ sent # <<>>
    /\ sent[Len(sent)] = PropagateON
    /\ propagate = "ON"
    /\ Count(sent, PropagateOFF) = 1

\* C19: a telemetry tick forces Fault exactly when the refreshed fault code is
\* "0002H"; a tick that observes any other code leaves the lifecycle state and
\* the sub-state as they were and publishes one telemetry record.
C19_NarrowFaultTrigger ==
    [][Issued("telemetry")
          => IF fault_code' = "0002H"
             THEN summary_state' = "FAULT"
             ELSE /\ UNCHANGED <<summary_state, evt_detailedState>>
                  /\ Len(tel') = Len(tel) + 1]_vars

\* C20: a read of detailed_state returns the value most recently written to it.
C20_ReadReturnsLastWrite ==
    evt_detailedState # <<>>
        => detailed_state = evt_detailedState[Len(evt_detailedState)]

====
